---- MODULE Spec2Model ----
(***************************************************************************)
(* MOFA+ Model Explorer (src/MOFAX_STREAMLIT.py): one Streamlit script     *)
(* that is re-executed from top to bottom on every widget interaction.     *)
(* A run is modelled statement group by statement group (pc); the calls    *)
(* into the model reader and the plotting libraries are external, so each  *)
(* of them either returns or raises, chosen nondeterministically.  Text    *)
(* (formatted metrics, CSV) is a sequence of one-character strings.        *)
(***************************************************************************)
EXTENDS Integers, Sequences, FiniteSets, TLC

VARIABLES
    model_file,       \* value of the file uploader: the uploaded bytes, or NoFile
    trigger,          \* the interaction that caused the current run
    pc,               \* statement group the run is at; "idle": the run is over
    tmpfiles,         \* the temporary files on disk: <<[name, bytes], ...>>
    temp_filepath,    \* name of the temporary file written by this run (0: none)
    m,                \* the model handle of this run, or NoHandle
    selected_factor,  \* value the select box returned in this run
    n_features,       \* value the slider returned in this run
    selState,         \* the select box's options and chosen position, kept across runs
    sliderState,      \* the slider's position, kept across runs
    page,             \* the elements displayed by this run, in display order
    log,              \* the library calls of this run and whether each returned
    aborted,          \* the run was ended by an uncaught exception
    runs,             \* runs started in this session
    uploadRuns        \* runs that took the `if model_file:` branch

vars == <<model_file, trigger, pc, tmpfiles, temp_filepath, m,
          selected_factor, n_features, selState, sliderState,
          page, log, aborted, runs, uploadRuns>>

(* ------------------------------ bounds -------------------------------- *)
MaxRuns == 5
MaxFeatures == 2
MaxFactors == 2

(* ------------------------- program constants -------------------------- *)
SliderMin == 1
SliderMaxOffByOne == 20 + 1

SliderMax == 20
SliderDefault == 5
HeadRows == 10

(* ------------------------------- text --------------------------------- *)
Digits == <<"0", "1", "2", "3", "4", "5", "6", "7", "8", "9">>

DigitChar(d) == Digits[d + 1]

DigitVal(c) == CHOOSE d \in 0..9 : Digits[d + 1] = c

IsDigit(c) == \E d \in 0..9 : Digits[d + 1] = c

RECURSIVE NatStr(_)
NatStr(n) ==
    IF n < 10 THEN <<DigitChar(n)>>
    ELSE NatStr(n \div 10) \o <<DigitChar(n % 10)>>

IntStr(n) == IF n < 0 THEN <<"-">> \o NatStr(0 - n) ELSE NatStr(n)

Pad3(n) ==
    <<DigitChar(n \div 100), DigitChar((n \div 10) % 10), DigitChar(n % 10)>>

RECURSIVE FormatThousandsNoPad(_)
FormatThousandsNoPad(n) ==
    IF n < 1000 THEN NatStr(n)
    ELSE FormatThousandsNoPad(n \div 1000) \o <<",">> \o NatStr(n % 1000)

\* "{:,}".format(n) for n >= 0
RECURSIVE FormatThousands(_)
FormatThousands(n) ==
    IF n < 1000 THEN NatStr(n)
    ELSE FormatThousands(n \div 1000) \o <<",">> \o Pad3(n % 1000)

\* "{}".format(n) for n >= 0
FormatPlain(n) == NatStr(n)

RECURSIVE ParseDigits(_, _)
ParseDigits(s, acc) ==
    IF s = <<>> THEN acc
    ELSE IF IsDigit(Head(s)) THEN ParseDigits(Tail(s), acc * 10 + DigitVal(Head(s)))
    ELSE ParseDigits(Tail(s), acc)

\* the number a reader takes from a displayed metric: separators dropped
ReadMetric(s) == ParseDigits(s, 0)

ParseInt(s) ==
    IF s # <<>> /\ Head(s) = "-" THEN 0 - ParseDigits(Tail(s), 0)
    ELSE ParseDigits(s, 0)

RECURSIVE Join(_, _)
Join(fields, sep) ==
    IF fields = <<>> THEN <<>>
    ELSE IF Len(fields) = 1 THEN fields[1]
    ELSE fields[1] \o <<sep>> \o Join(Tail(fields), sep)

\* s split at every occurrence of sep; cur is the field being read
RECURSIVE SplitAcc(_, _, _)
SplitAcc(s, sep, cur) ==
    IF s = <<>> THEN <<cur>>
    ELSE IF Head(s) = sep THEN <<cur>> \o SplitAcc(Tail(s), sep, <<>>)
    ELSE SplitAcc(Tail(s), sep, Append(cur, Head(s)))

Split(s, sep) == SplitAcc(s, sep, <<>>)

(* ------------------------------ labels -------------------------------- *)
\* a pandas / widget label is an integer or a string
IntId(k) == [isInt |-> TRUE, i |-> k, s |-> <<>>]

StrId(str) == [isInt |-> FALSE, i |-> 0, s |-> str]

NoLabel == [isInt |-> FALSE, i |-> 0, s |-> <<>>]

(* --------------------------- data frames ------------------------------ *)
\* pandas DataFrame: row labels, column names, a matrix of numbers.  The
\* numbers stand for the reader's floating-point values; only their decimal
\* text matters here.
Table(index, columns, values) ==
    [index |-> index, columns |-> columns, values |-> values]

RangeIndex(n) == [r \in 1..n |-> IntId(r - 1)]

CsvLine(fields) == Join(fields, ",") \o <<"\n">>

RECURSIVE CsvRows(_)
CsvRows(rows) ==
    IF rows = <<>> THEN <<>>
    ELSE CsvLine([c \in 1..Len(Head(rows)) |-> IntStr(Head(rows)[c])])
         \o CsvRows(Tail(rows))

\* DataFrame.to_csv(index=False): the header line, then one line per row,
\* the row labels left out
ToCsv(df) == CsvLine(df.columns) \o CsvRows(df.values)

(* ------------------------------ uploads ------------------------------- *)
Name(prefix, k) == prefix \o NatStr(k)

WeightValue(i, j, seed) == ((i * 7 + j * 13 + seed) % 41) - 20

\* the bytes of a model file, by what the reader finds in them
MkModel(cells, nfeat, ngroups, intIds, nfact) ==
    [kind     |-> "hdf5model",
     cells    |-> cells,
     features |-> [i \in 1..nfeat |-> StrId(Name(<<"g", "e", "n", "e">>, i))],
     groups   |-> [g \in 1..ngroups |-> Name(<<"g", "r", "o", "u", "p">>, g)],
     factors  |-> [k \in 1..nfact |->
                     IF intIds THEN IntId(k - 1)
                     ELSE StrId(Name(<<"F", "a", "c", "t", "o", "r">>, k))],
     columns  |-> [k \in 1..nfact |-> Name(<<"F", "a", "c", "t", "o", "r">>, k)],
     W        |-> [i \in 1..nfeat |-> [k \in 1..nfact |-> WeightValue(i, k, cells)]]]

Blob(kind) ==
    [kind |-> kind, cells |-> 0, features |-> <<>>, groups |-> <<>>,
     factors |-> <<>>, columns |-> <<>>, W |-> <<>>]

NoFile == Blob("none")

Garbage == Blob("garbage")

Uploads ==
    {Garbage,
     MkModel(1234567, MaxFeatures, 2, FALSE, MaxFactors),
     MkModel(1000, 1, 1, TRUE, MaxFactors),
     MkModel(7, 25, 1, TRUE, 1)}

SliderInputs == {SliderMin, SliderDefault, SliderMax}

(* --------------------------- model handle ----------------------------- *)
NoHandle == [path |-> 0, model |-> NoFile]

\* m.shape
Shape(h) == <<h.model.cells, Len(h.model.features)>>

\* m.get_weights(df=True)
GetWeights(h) == Table(h.model.features, h.model.columns, h.model.W)

\* m.calculate_variance_explained(): one row per factor
CalculateVarianceExplained(h) ==
    Table(RangeIndex(Len(h.model.columns)),
          <<<<"F", "a", "c", "t", "o", "r">>, <<"R", "2">>>>,
          [k \in 1..Len(h.model.columns) |-> <<k, WeightValue(k, k, 0) + 20>>])

(* ------------------------------ the page ------------------------------ *)
\* one displayed element: what it is, the temporary file its handle was
\* opened from (0: none), its text, its n_features and its factor argument
El(kind, src, txt, n, fac) ==
    [kind |-> kind, src |-> src, txt |-> txt, n |-> n, fac |-> fac]

Static(kind) == El(kind, 0, <<>>, 0, NoLabel)

Rendered(kind) == \E i \in 1..Len(page) : page[i].kind = kind

OkEntries(sites) == [i \in 1..Len(sites) |-> [site |-> sites[i], ok |-> TRUE]]

GuardedEverywhere(site) == TRUE

GuardedLoadToo(site) == site \in {"tab2.plot_weights_ranked", "mofa_model"}

\* the one try/except of the script
Guarded(site) == site = "tab2.plot_weights_ranked"

ErrorText(site) == <<"Failed to plot ranked weights">>

\* a statement group that makes the calls `sites` in order; f = 0: all of
\* them return, f > 0: the f-th raises.  pre is displayed before the first
\* call, post after the last.  An exception outside the try/except ends
\* the run where it is raised.
Step(sites, f, pre, post, nxt) ==
    IF f = 0
    THEN /\ log' = log \o OkEntries(sites)
         /\ page' = page \o pre \o post
         /\ pc' = nxt
         /\ UNCHANGED aborted
    ELSE /\ log' = log \o OkEntries(SubSeq(sites, 1, f - 1))
                       \o <<[site |-> sites[f], ok |-> FALSE]>>
         /\ IF Guarded(sites[f])
            THEN /\ page' = page \o pre
                              \o <<El("error", 0, ErrorText(sites[f]), 0, NoLabel)>>
                 /\ pc' = nxt
                 /\ UNCHANGED aborted
            ELSE /\ page' = page \o pre \o <<Static("exception")>>
                 /\ pc' = "idle"
                 /\ aborted' = TRUE

(* ------------------------------- Init --------------------------------- *)
\* a new session: the first run is about to execute, nothing uploaded
Init ==
    /\ model_file = NoFile
    /\ trigger = "session"
    /\ pc = "header"
    /\ tmpfiles = <<>>
    /\ temp_filepath = 0
    /\ m = NoHandle
    /\ selected_factor = NoLabel
    /\ n_features = 0
    /\ selState = [options |-> <<>>, idx |-> 1]
    /\ sliderState = SliderDefault
    /\ page = <<>>
    /\ log = <<>>
    /\ aborted = FALSE
    /\ runs = 1
    /\ uploadRuns = 0

(* ------------------------- user interactions -------------------------- *)
\* every interaction re-executes the script from the top
Rerun(cause) ==
    /\ pc = "idle"
    /\ runs < MaxRuns
    /\ runs' = runs + 1
    /\ trigger' = cause
    /\ pc' = "header"
    /\ page' = <<>>
    /\ log' = <<>>
    /\ aborted' = FALSE
    /\ m' = NoHandle
    /\ temp_filepath' = 0
    /\ selected_factor' = NoLabel
    /\ n_features' = 0
    /\ UNCHANGED <<tmpfiles, uploadRuns>>

Upload(f) ==
    /\ Rendered("file_uploader")
    /\ f # model_file
    /\ model_file' = f
    /\ Rerun("upload")
    /\ UNCHANGED <<selState, sliderState>>

RemoveFile ==
    /\ Rendered("file_uploader")
    /\ model_file # NoFile
    /\ model_file' = NoFile
    /\ Rerun("upload")
    /\ UNCHANGED <<selState, sliderState>>

SelectFactor(i) ==
    /\ Rendered("selectbox")
    /\ i \in 1..Len(selState.options)
    /\ i # selState.idx
    /\ selState' = [selState EXCEPT !.idx = i]
    /\ Rerun("selectbox")
    /\ UNCHANGED <<model_file, sliderState>>

MoveSlider(v) ==
    /\ Rendered("slider")
    /\ v \in SliderMin..SliderMax
    /\ v # sliderState
    /\ sliderState' = v
    /\ Rerun("slider")
    /\ UNCHANGED <<model_file, selState>>

PressWeights ==
    /\ Rendered("button_weights")
    /\ Rerun("button_weights")
    /\ UNCHANGED <<model_file, selState, sliderState>>

PressVariance ==
    /\ Rendered("button_variance")
    /\ Rerun("button_variance")
    /\ UNCHANGED <<model_file, selState, sliderState>>

PressDownload ==
    /\ Rendered("download_weights") \/ Rendered("download_variance")
    /\ Rerun("download_button")
    /\ UNCHANGED <<model_file, selState, sliderState>>

(* --------------------------- one script run --------------------------- *)
ButtonPressedSticky(label) == trigger \in {label, "download_button"}

\* st.button: pressed only in the run its own click caused
ButtonPressed(label) == trigger = label

NamedTemporaryFileReused(files, bytes) ==
    IF files = <<>> THEN <<[name |-> 1, bytes |-> bytes]>>
    ELSE [files EXCEPT ![Len(files)].bytes = bytes]

\* tempfile.NamedTemporaryFile(delete=False, suffix=".hdf5") + write: a new
\* file under a name no file has, left on disk when the block closes
NamedTemporaryFile(files, bytes) ==
    Append(files, [name |-> Len(files) + 1, bytes |-> bytes])

ReadFile(path) == tmpfiles[CHOOSE i \in 1..Len(tmpfiles) : tmpfiles[i].name = path]

ModelPathFirst == tmpfiles[1].name

\* the path handed to mfx.mofa_model
ModelPath == temp_filepath

\* range(x) raises TypeError unless x is an integer
RangeTypeError(x) == ~x.isInt

\* len(list(range(k)))
RangeLen(k) == IF k < 0 THEN 0 ELSE k

Min(a, b) == IF a < b THEN a ELSE b

MetricCells(h) == El("metric_cells", h.path, FormatThousands(Shape(h)[1]), 0, NoLabel)

MetricFeatures(h) ==
    El("metric_features", h.path, FormatThousands(Shape(h)[2]), 0, NoLabel)

MetricGroups(h) ==
    El("metric_groups", h.path, FormatPlain(Len(h.model.groups)), 0, NoLabel)

\* lines 10-122: page set-up, title, file uploader, `if model_file:`
Header ==
    /\ pc = "header"
    /\ page' = page \o <<Static("css"), Static("title"), Static("file_uploader")>>
    /\ IF model_file # NoFile
       THEN pc' = "save" /\ uploadRuns' = uploadRuns + 1
       ELSE pc' = "welcome" /\ UNCHANGED uploadRuns
    /\ UNCHANGED <<model_file, trigger, tmpfiles, temp_filepath, m, selected_factor,
                   n_features, selState, sliderState, log, aborted, runs>>

\* lines 124-126
SaveUpload ==
    /\ pc = "save"
    /\ tmpfiles' = NamedTemporaryFile(tmpfiles, model_file)
    /\ temp_filepath' = tmpfiles'[Len(tmpfiles')].name
    /\ pc' = "load"
    /\ UNCHANGED <<model_file, trigger, m, selected_factor, n_features, selState,
                   sliderState, page, log, aborted, runs, uploadRuns>>

\* line 129: the reader raises on bytes that are no model; on a model file
\* it returns a handle (f = 0) or fails for a reason of its own (f = 1)
LoadModel(f) ==
    /\ pc = "load"
    /\ LET file == ReadFile(ModelPath)
       IN /\ f \in 0..1
          /\ file.bytes.kind # "hdf5model" => f = 1
          /\ Step(<<"mofa_model">>, f, <<>>, <<>>, "metrics")
          /\ m' = IF f = 0 THEN [path |-> file.name, model |-> file.bytes] ELSE NoHandle
    /\ UNCHANGED <<model_file, trigger, tmpfiles, temp_filepath, selected_factor,
                   n_features, selState, sliderState, runs, uploadRuns>>

\* lines 132-156
Metrics ==
    /\ pc = "metrics"
    /\ Step(<<>>, 0, <<MetricCells(m), MetricFeatures(m), MetricGroups(m)>>, <<>>,
            "controls")
    /\ UNCHANGED <<model_file, trigger, tmpfiles, temp_filepath, m, selected_factor,
                   n_features, selState, sliderState, runs, uploadRuns>>

\* lines 159-166: the select box keeps its choice while its options stay
\* the same and starts at the first option otherwise; the slider keeps its
\* value
Controls ==
    /\ pc = "controls"
    /\ LET opts == m.model.factors
           idx  == IF selState.options = opts THEN selState.idx ELSE 1
           sel  == IF opts = <<>> THEN NoLabel ELSE opts[idx]
       IN /\ selState' = [options |-> opts, idx |-> idx]
          /\ selected_factor' = sel
          /\ n_features' = sliderState
          /\ Step(<<>>, 0,
                  <<El("selectbox", m.path, <<>>, 0, sel),
                    El("slider", 0, <<>>, sliderState, NoLabel)>>,
                  <<>>, "export_weights")
    /\ UNCHANGED <<model_file, trigger, tmpfiles, temp_filepath, m, sliderState,
                   runs, uploadRuns>>

\* lines 171-180
ExportWeights(f) ==
    /\ pc = "export_weights"
    /\ IF ButtonPressed("button_weights")
       THEN /\ f \in 0..2
            /\ Step(<<"export.get_weights", "export.weights_to_csv">>, f,
                    <<Static("button_weights")>>,
                    <<El("download_weights", m.path, ToCsv(GetWeights(m)), 0, NoLabel)>>,
                    "export_variance")
       ELSE /\ f = 0
            /\ Step(<<>>, 0, <<Static("button_weights")>>, <<>>, "export_variance")
    /\ UNCHANGED <<model_file, trigger, tmpfiles, temp_filepath, m, selected_factor,
                   n_features, selState, sliderState, runs, uploadRuns>>

\* lines 182-191: the table is serialized at line 185 and again at line 188
ExportVariance(f) ==
    /\ pc = "export_variance"
    /\ IF ButtonPressed("button_variance")
       THEN /\ f \in 0..3
            /\ Step(<<"export.calculate_variance_explained", "export.variance_to_csv",
                      "export.variance_to_csv_data">>, f,
                    <<Static("button_variance")>>,
                    <<El("download_variance", m.path,
                         ToCsv(CalculateVarianceExplained(m)), 0, NoLabel)>>,
                    "tab1")
       ELSE /\ f = 0
            /\ Step(<<>>, 0, <<Static("button_variance")>>, <<>>, "tab1")
    /\ UNCHANGED <<model_file, trigger, tmpfiles, temp_filepath, m, selected_factor,
                   n_features, selState, sliderState, runs, uploadRuns>>

\* lines 194-208
Tab1(f) ==
    /\ pc = "tab1"
    /\ f \in 0..1
    /\ Step(<<"tab1.plot_weights_heatmap">>, f,
            <<Static("tabs"), Static("tab1_header")>>,
            <<El("heatmap", m.path, <<>>, n_features, NoLabel)>>, "tab2")
    /\ UNCHANGED <<model_file, trigger, tmpfiles, temp_filepath, m, selected_factor,
                   n_features, selState, sliderState, runs, uploadRuns>>

\* lines 210-223
Tab2(f) ==
    /\ pc = "tab2"
    /\ f \in 0..1
    /\ Step(<<"tab2.plot_weights_ranked">>, f,
            <<Static("tab2_header")>>,
            <<El("ranked_plot", m.path, <<>>, n_features, selected_factor)>>, "tab3")
    /\ UNCHANGED <<model_file, trigger, tmpfiles, temp_filepath, m, selected_factor,
                   n_features, selState, sliderState, runs, uploadRuns>>

\* lines 225-238: list(range(selected_factor)) comes first
Tab3(f) ==
    /\ pc = "tab3"
    /\ IF RangeTypeError(selected_factor) THEN f = 1 ELSE f \in {0, 2}
    /\ LET k == RangeLen(selected_factor.i)
       IN Step(<<"tab3.range", "tab3.get_r2">>, f,
               <<Static("tab3_header")>>,
               <<El("variance_chart", m.path, <<>>, Min(k, HeadRows), NoLabel),
                 El("variance_table", m.path, <<>>, k, NoLabel)>>, "tab4")
    /\ UNCHANGED <<model_file, trigger, tmpfiles, temp_filepath, m, selected_factor,
                   n_features, selState, sliderState, runs, uploadRuns>>

\* lines 240-253
Tab4(f) ==
    /\ pc = "tab4"
    /\ f \in 0..1
    /\ Step(<<"tab4.get_weights_corr">>, f,
            <<Static("tab4_header")>>,
            <<El("corr_matrix", m.path, <<>>, 0, NoLabel)>>, "footer")
    /\ UNCHANGED <<model_file, trigger, tmpfiles, temp_filepath, m, selected_factor,
                   n_features, selState, sliderState, runs, uploadRuns>>

\* lines 255-263
Welcome ==
    /\ pc = "welcome"
    /\ Step(<<>>, 0, <<Static("welcome")>>, <<>>, "footer")
    /\ UNCHANGED <<model_file, trigger, tmpfiles, temp_filepath, m, selected_factor,
                   n_features, selState, sliderState, runs, uploadRuns>>

\* lines 264-269
Footer ==
    /\ pc = "footer"
    /\ Step(<<>>, 0, <<Static("footer")>>, <<>>, "idle")
    /\ UNCHANGED <<model_file, trigger, tmpfiles, temp_filepath, m, selected_factor,
                   n_features, selState, sliderState, runs, uploadRuns>>

Next ==
    \/ \E f \in Uploads : Upload(f)
    \/ RemoveFile
    \/ \E i \in 1..MaxFactors : SelectFactor(i)
    \/ \E v \in SliderInputs : MoveSlider(v)
    \/ PressWeights
    \/ PressVariance
    \/ PressDownload
    \/ Header
    \/ SaveUpload
    \/ \E f \in 0..1 : LoadModel(f)
    \/ Metrics
    \/ Controls
    \/ \E f \in 0..2 : ExportWeights(f)
    \/ \E f \in 0..3 : ExportVariance(f)
    \/ \E f \in 0..1 : Tab1(f)
    \/ \E f \in 0..1 : Tab2(f)
    \/ \E f \in 0..2 : Tab3(f)
    \/ \E f \in 0..1 : Tab4(f)
    \/ Welcome
    \/ Footer

Spec == Init /\ [][Next]_vars

(* ------------------------ vocabulary of the claims -------------------- *)
\* the display statements of the script, in script order
ScriptOrder ==
    <<"css", "title", "file_uploader", "metric_cells", "metric_features",
      "metric_groups", "selectbox", "slider", "button_weights", "download_weights",
      "button_variance", "download_variance", "tabs", "tab1_header", "heatmap",
      "tab2_header", "ranked_plot", "tab3_header", "variance_chart",
      "variance_table", "tab4_header", "corr_matrix", "welcome", "footer">>

Order(kind) ==
    IF kind = "exception" THEN 0
    ELSE IF kind = "error" THEN CHOOSE i \in 1..Len(ScriptOrder) : ScriptOrder[i] = "ranked_plot"
    ELSE CHOOSE i \in 1..Len(ScriptOrder) : ScriptOrder[i] = kind

\* what the call at `site` would have displayed
OutputOf(site) ==
    CASE site = "mofa_model" -> "metric_cells"
      [] site \in {"export.get_weights", "export.weights_to_csv"} -> "download_weights"
      [] site \in {"export.calculate_variance_explained", "export.variance_to_csv",
                   "export.variance_to_csv_data"} -> "download_variance"
      [] site = "tab1.plot_weights_heatmap" -> "heatmap"
      [] site = "tab2.plot_weights_ranked" -> "ranked_plot"
      [] site \in {"tab3.range", "tab3.get_r2"} -> "variance_chart"
      [] site = "tab4.get_weights_corr" -> "corr_matrix"

\* the elements computed from a model handle
DerivedKinds ==
    {"metric_cells", "metric_features", "metric_groups", "selectbox",
     "download_weights", "download_variance", "heatmap", "ranked_plot",
     "variance_chart", "variance_table", "corr_matrix"}

Failed(site) == \E i \in 1..Len(log) : log[i].site = site /\ ~log[i].ok

Loaded == \E i \in 1..Len(log) : log[i].site = "mofa_model" /\ log[i].ok

\* no call into the reader or the plotting libraries raised, the ranked
\* plot aside
OnlyRankedPlotRaised ==
    \A i \in 1..Len(log) :
        ~log[i].ok => log[i].site \in {"tab2.plot_weights_ranked", "tab3.range"}

NoLibraryCallRaised ==
    \A i \in 1..Len(log) : ~log[i].ok => log[i].site = "tab3.range"

Pos(kind) == CHOOSE i \in 1..Len(page) : page[i].kind = kind

Range(seq) == {seq[i] : i \in 1..Len(seq)}

\* pandas.read_csv(text): the first line names the columns, every other
\* line is a row of numbers, the rows are labelled 0, 1, 2, ...
ReadCsv(text) ==
    LET all   == Split(text, "\n")
        lines == SubSeq(all, 1, Len(all) - 1)
        body  == Tail(lines)
    IN Table(RangeIndex(Len(body)),
             Split(Head(lines), ","),
             [r \in 1..Len(body) |->
                LET fields == Split(body[r], ",")
                IN [c \in 1..Len(fields) |-> ParseInt(fields[c])]])

(* ------------------------------- claims ------------------------------- *)
\* C1: in a run with a loaded model in which the ranked-weights plot raises
\* (and no other library call does), once the run is over the inline error
\* message is on the page and so are the Variance Analysis tab, the
\* Correlation Matrix tab and the footer.
C1_RankedFailureLeavesRestIntact ==
    (pc = "idle" /\ Loaded /\ Failed("tab2.plot_weights_ranked") /\ OnlyRankedPlotRaised)
        => /\ Rendered("error")
           /\ Rendered("variance_chart")
           /\ Rendered("variance_table")
           /\ Rendered("corr_matrix")
           /\ Rendered("footer")

\* C2: a failure anywhere but in the ranked-weights plot is the last thing
\* the run does: the run is over and aborted, the failed call was made once,
\* and nothing that comes later in script order (the failed call's own
\* output, later tabs, the footer) is on the page.
C2_UnguardedFailureAborts ==
    \A i \in 1..Len(log) :
        (~log[i].ok /\ log[i].site # "tab2.plot_weights_ranked")
            => /\ i = Len(log)
               /\ pc = "idle"
               /\ aborted
               /\ \A j \in 1..(i - 1) : log[j].site # log[i].site
               /\ ~Rendered("footer")
               /\ \A j \in 1..Len(page) :
                      Order(page[j].kind) < Order(OutputOf(log[i].site))

C2_Witness ==
    /\ pc = "idle"
    /\ aborted
    /\ Failed("tab4.get_weights_corr")
    /\ Rendered("variance_table")
    /\ Rendered("exception")

\* C3: while the uploaded file is not a model, and in every run whose model
\* load failed, no element computed from a model handle (metric, select
\* box, download, chart, table) is on the page.
C3_NoDisplayAfterFailedLoad ==
    (model_file.kind = "garbage" \/ Failed("mofa_model"))
        => \A j \in 1..Len(page) :
               page[j].kind \notin DerivedKinds /\ page[j].src = 0

C3_Witness ==
    /\ pc = "idle"
    /\ model_file = Garbage
    /\ Failed("mofa_model")
    /\ aborted
    /\ Len(tmpfiles) >= 2

\* C4: every element on the page that is computed from a handle comes from
\* the handle opened in this run on the temporary copy of the file that is
\* uploaded now, and shows that file's values; nothing of an earlier file
\* or run is on the page.
C4_DisplayFromCurrentUpload ==
    \A j \in 1..Len(page) :
        LET e == page[j]
        IN /\ e.kind \in DerivedKinds <=> e.src # 0
           /\ e.src # 0 =>
                /\ e.src = temp_filepath
                /\ e.src = tmpfiles[Len(tmpfiles)].name
                /\ ReadFile(e.src).bytes = model_file
                /\ e.kind = "metric_cells" => e.txt = FormatThousands(model_file.cells)
                /\ e.kind = "metric_features" =>
                       e.txt = FormatThousands(Len(model_file.features))
                /\ e.kind = "metric_groups" => e.txt = FormatPlain(Len(model_file.groups))
                /\ e.kind \in {"selectbox", "ranked_plot"} =>
                       e.fac \in Range(model_file.factors)
                /\ e.kind = "download_weights" =>
                       e.txt = ToCsv(Table(model_file.features, model_file.columns,
                                           model_file.W))

C4_Witness ==
    /\ pc = "idle"
    /\ Len(tmpfiles) >= 2
    /\ tmpfiles[1].bytes.kind = "hdf5model"
    /\ model_file.kind = "hdf5model"
    /\ tmpfiles[1].bytes # model_file
    /\ Rendered("metric_cells")
    /\ Rendered("corr_matrix")

\* C5: the Total Cells, Features and Groups metrics on the page read back
\* as the handle's cell count, feature count and number of groups.
C5_MetricsPassThrough ==
    \A j \in 1..Len(page) :
        /\ page[j].kind = "metric_cells" => ReadMetric(page[j].txt) = m.model.cells
        /\ page[j].kind = "metric_features" =>
               ReadMetric(page[j].txt) = Len(m.model.features)
        /\ page[j].kind = "metric_groups" =>
               ReadMetric(page[j].txt) = Len(m.model.groups)

C5_Witness ==
    /\ Rendered("metric_cells")
    /\ Rendered("metric_groups")
    /\ m.model.cells >= 1000000
    /\ page[Pos("metric_cells")].txt = <<"1", ",", "2", "3", "4", ",", "5", "6", "7">>

\* C6: the weights CSV offered for download, parsed again, is the in-memory
\* weight table: same row labels (features), same columns (factors), same
\* values.
C6_CsvRoundTripIdentity ==
    \A j \in 1..Len(page) :
        page[j].kind = "download_weights" => ReadCsv(page[j].txt) = GetWeights(m)

\* what does survive the round trip: the shape, the column names and the
\* values
C6_ShapeAndValuesKept ==
    \A j \in 1..Len(page) :
        page[j].kind = "download_weights" =>
            LET back == ReadCsv(page[j].txt)
            IN /\ back.columns = GetWeights(m).columns
               /\ back.values = GetWeights(m).values
               /\ Len(back.index) = Len(GetWeights(m).index)

\* C7 as claimed: the n_features handed to the heatmap and to the ranked
\* plot is at most the model's feature count and lies in 1..20.
C7_FeatureCountWithinModel ==
    \A j \in 1..Len(page) :
        page[j].kind \in {"heatmap", "ranked_plot"} =>
            /\ page[j].n <= Shape(m)[2]
            /\ page[j].n \in 1..20

\* C7 as amended: the n_features handed to the heatmap and to the ranked
\* plot is the slider's value and lies in 1..20, whatever the model's
\* feature count.
C7_FeatureCountWithinSlider ==
    /\ pc \notin {"header", "save", "load", "metrics", "controls"} /\ Loaded =>
           n_features = sliderState /\ n_features \in 1..20
    /\ \A j \in 1..Len(page) :
           page[j].kind \in {"heatmap", "ranked_plot"} =>
               page[j].n = sliderState /\ page[j].n \in 1..20

C7_Witness ==
    /\ Rendered("heatmap")
    /\ Rendered("ranked_plot")
    /\ page[Pos("heatmap")].n = 20
    /\ page[Pos("heatmap")].n > Shape(m)[2]

\* C8: the temporary files on disk are as many as the runs that had a file
\* uploaded (one less while such a run has not yet written its copy), each
\* under its own name; the run's copy holds the uploaded bytes; a run with
\* nothing uploaded adds none.
C8_TempFilesNeverDeleted ==
    /\ Len(tmpfiles) = IF pc = "save" THEN uploadRuns - 1 ELSE uploadRuns
    /\ \A i, j \in 1..Len(tmpfiles) : tmpfiles[i].name = tmpfiles[j].name => i = j
    /\ temp_filepath # 0 =>
           /\ temp_filepath = tmpfiles[Len(tmpfiles)].name
           /\ ReadFile(temp_filepath).bytes = model_file
    /\ model_file = NoFile => temp_filepath = 0

C8_Witness ==
    /\ pc = "idle"
    /\ model_file = NoFile
    /\ Rendered("welcome")
    /\ Len(tmpfiles) = 2
    /\ runs = 4

\* C9: in a run with a loaded model in which no library call raises, once
\* the run is over the four tabs are on the page in the order Feature
\* Weights, Ranked Weights, Variance Analysis, Correlation Matrix, and so
\* is the footer.
C9_AllTabsRendered ==
    (pc = "idle" /\ Loaded /\ NoLibraryCallRaised)
        => /\ Rendered("heatmap")
           /\ Rendered("ranked_plot")
           /\ Rendered("variance_chart")
           /\ Rendered("corr_matrix")
           /\ Rendered("footer")
           /\ Pos("heatmap") < Pos("ranked_plot")
           /\ Pos("ranked_plot") < Pos("variance_chart")
           /\ Pos("variance_chart") < Pos("corr_matrix")
           /\ Pos("corr_matrix") < Pos("footer")

\* C10: a table is serialized and its download offered only in the run its
\* own export button caused.
C10_DownloadOnlyAfterOwnButton ==
    /\ \A j \in 1..Len(page) :
           /\ page[j].kind = "download_weights" => trigger = "button_weights"
           /\ page[j].kind = "download_variance" => trigger = "button_variance"
    /\ \A i \in 1..Len(log) :
           /\ log[i].site \in {"export.get_weights", "export.weights_to_csv"} =>
                  trigger = "button_weights"
           /\ log[i].site \in {"export.calculate_variance_explained",
                               "export.variance_to_csv",
                               "export.variance_to_csv_data"} =>
                  trigger = "button_variance"

C10_Witness ==
    /\ pc = "idle"
    /\ trigger = "download_button"
    /\ Rendered("button_weights")
    /\ Rendered("button_variance")
    /\ Rendered("footer")
    /\ ~Rendered("download_weights")
    /\ ~Rendered("download_variance")

====
